---------------------------- MODULE Spec2Model ----------------------------
(***************************************************************************)
(* A model of three pieces of the fornjot repository:                      *)
(*                                                                         *)
(*   crates/fj-math/src/triangle.rs            the Triangle<D> primitive   *)
(*   experiments/2025-03-18/.../surface.rs     SurfaceMesh::from_surface   *)
(*   experiments/2024-12-09/.../geometry.rs    Geometry::new               *)
(*                                                                         *)
(* Scalars are binary floating-point numbers.  f64 has a 53-bit            *)
(* significand, which TLC's integers cannot enumerate, so the format is    *)
(* scaled down: a significand of Prec bits and a smallest quantum of       *)
(* 2^-Frac, rounded to nearest, ties to even, as IEEE-754 does.  A scalar  *)
(* is held as an integer number of quanta (value * 2^Frac).                *)
(***************************************************************************)
EXTENDS Integers, Sequences, FiniteSets

VARIABLES
    tri,        \* Triangle<D>.points: three points of D scalars each
    op,         \* the Triangle method that ran last
    arg,        \* what it was called with
    ret,        \* what it returned
    request,    \* from_surface's arguments: surface, boundary, tolerance
    approximate_call,   \* surface.geometry.approximate: arguments, returned
    triangles_call,     \* the arguments delaunay::triangles got
    mesh,       \* the SurfaceMesh from_surface returned
    tri_mesh,   \* Geometry::new: operation.tri_mesh().all_triangles()
    vertices,   \* Geometry::new: the local Vec<Vertex>
    indices,    \* Geometry::new: the local Vec<u32>
    phase,      \* Geometry::new: "loop", "returned" or "panicked"
    result      \* the Geometry that Geometry::new returned

triangle_vars == <<tri, op, arg, ret>>
surface_vars == <<request, approximate_call, triangles_call, mesh>>
geometry_vars == <<tri_mesh, vertices, indices, phase, result>>
vars == <<triangle_vars, surface_vars, geometry_vars>>

\* ---------------------------------------------------------------- bounds
Prec == 4          \* significand bits of the scaled-down float format
Frac == 6          \* the smallest quantum is 2^-Frac
MaxCoord2 == 6     \* 2D triangle coordinates are the integers 0..MaxCoord2
MaxCoord3 == 2     \* 3D triangle coordinates are the integers 0..MaxCoord3
MaxBary2 == 2      \* the same, for the triangles of the barycentric round trip
MaxBary3 == 1
MaxWeight == 4     \* barycentric weights are the quarters -1/4 .. MaxWeight/4
MaxWide == 7       \* coordinates of the triangles points are projected into
MaxParam == 2      \* parametric (u, v) coordinates are the integers 0..MaxParam
MaxSamples == 1    \* approximate yields at most this many sample points
MaxTolerance == 2  \* tolerances are 1..MaxTolerance
PrecF32 == 3       \* significand bits of the scaled-down f32
IndexBits == 3     \* width of the scaled-down u32 index
MaxTriangles == 5  \* a tri mesh holds at most this many triangles

\* ------------------------------------------------------- float arithmetic
RECURSIVE Pow2(_)
Pow2(n) == IF n = 0 THEN 1 ELSE 2 * Pow2(n - 1)

Unit == Pow2(Frac)

Abs(x) == IF x < 0 THEN -x ELSE x

Sgn(x) == IF x < 0 THEN -1 ELSE IF x > 0 THEN 1 ELSE 0

\* p / d (p >= 0, d > 0) rounded to the nearest integer, ties to even
RoundHalfEven(p, d) ==
    LET f == p \div d
        r == p % d
    IN  IF 2 * r < d THEN f
        ELSE IF 2 * r > d THEN f + 1
        ELSE IF f % 2 = 0 THEN f ELSE f + 1

\* the spacing of the floats around a (in quanta): the least power of two g
\* with a < sig * g, for significands below sig
MaxSig == Pow2(Prec)

RECURSIVE QuantumFrom(_, _, _)
QuantumFrom(a, g, sig) ==
    IF a < sig * g THEN g ELSE QuantumFrom(a, 2 * g, sig)

\* the float nearest to the rational p / q (in quanta, q > 0), among the
\* floats whose significands are below sig
RoundRatTo(sig, p, q) ==
    LET a == Abs(p)
        g == QuantumFrom(a \div q, 1, sig)
    IN  Sgn(p) * RoundHalfEven(a, q * g) * g

RoundRat(p, q) == RoundRatTo(MaxSig, p, q)

\* A scalar inside a computation is <<value, inexact>>: the value in quanta
\* and the sticky flag IEEE-754 raises when an operation had to round.
Lift(x) == <<x, FALSE>>

SAdd(x, y) ==
    LET e == x[1] + y[1]
        r == RoundRat(e, 1)
    IN  <<r, x[2] \/ y[2] \/ r # e>>

SSub(x, y) ==
    LET e == x[1] - y[1]
        r == RoundRat(e, 1)
    IN  <<r, x[2] \/ y[2] \/ r # e>>

SMul(x, y) ==
    LET e == x[1] * y[1]
        r == RoundRat(e, Unit)
    IN  <<r, x[2] \/ y[2] \/ r * Unit # e>>

\* y[1] # 0
SDiv(x, y) ==
    LET e == x[1] * Unit * Sgn(y[1])
        d == Abs(y[1])
        r == RoundRat(e, d)
    IN  <<r, x[2] \/ y[2] \/ r * d # e>>

\* ------------------------------------------------------- points, vectors
Dim(p) == Len(p)

LiftV(p) == [i \in 1..Len(p) |-> Lift(p[i])]

\* Point - Point
VSub(p, q) == [i \in 1..Len(p) |-> SSub(p[i], q[i])]

\* Vector * Scalar
VScale(p, s) == [i \in 1..Len(p) |-> SMul(p[i], s)]

VAdd(p, q) == [i \in 1..Len(p) |-> SAdd(p[i], q[i])]

RECURSIVE DotFrom(_, _, _)
DotFrom(p, q, i) ==
    IF i = 1 THEN SMul(p[1], q[1])
    ELSE SAdd(DotFrom(p, q, i - 1), SMul(p[i], q[i]))

Dot(p, q) == DotFrom(p, q, Len(p))

Values(p) == [i \in 1..Len(p) |-> p[i][1]]

AnyInexact(p) == \E i \in 1..Len(p) : p[i][2]


\* floor of the square root of n >= 0, by bisection on lo <= sqrt(n) < hi
RECURSIVE ISqrtIn(_, _, _)
ISqrtIn(n, lo, hi) ==
    IF hi - lo <= 1 THEN lo
    ELSE LET mid == (lo + hi) \div 2
         IN  IF mid * mid <= n THEN ISqrtIn(n, mid, hi) ELSE ISqrtIn(n, lo, mid)

\* a power of two above the square root of n
RECURSIVE SqrtAbove(_, _)
SqrtAbove(n, h) == IF h * h > n THEN h ELSE SqrtAbove(n, 2 * h)

\* the float nearest to the square root of x >= 0
SSqrt(x) ==
    LET n == x[1] * Unit            \* sqrt(x / Unit) * Unit = sqrt(x * Unit)
        s == ISqrtIn(n, 0, SqrtAbove(n, 1))
        g == QuantumFrom(s, 1, MaxSig)
        m == s \div g
        up == (2 * m + 1) * (2 * m + 1) * g * g < 4 * n
        r == IF up THEN (m + 1) * g ELSE m * g
    IN  <<r, x[2] \/ r * r # n>>

\* Scalar::default_epsilon(): the machine epsilon of the format, 2^(1-Prec)
Epsilon == Pow2(Frac - Prec + 1)

\* Scalar::ONE
One == Lift(Unit)

\* --------------------------------------------------------------- Triangle
Coord(max) == {k * Unit : k \in 0..max}
Points2(max) == Coord(max) \X Coord(max)
Points3(max) == Coord(max) \X Coord(max) \X Coord(max)

from_points(points) == <<points[1], points[2], points[3]>>

\* Vector::outer followed by Bivector::magnitude: the area of the
\* parallelogram two vectors span
OuterMagnitude(u, v) ==
    IF Len(u) = 2
    THEN LET c == SSub(SMul(u[1], v[2]), SMul(u[2], v[1]))
         IN  <<Abs(c[1]), c[2]>>
    ELSE LET cx == SSub(SMul(u[2], v[3]), SMul(u[3], v[2]))
             cy == SSub(SMul(u[3], v[1]), SMul(u[1], v[3]))
             cz == SSub(SMul(u[1], v[2]), SMul(u[2], v[1]))
         IN  SSqrt(SAdd(SAdd(SMul(cx, cx), SMul(cy, cy)), SMul(cz, cz)))

\* is_valid with the first edge vector taken twice
is_valid_same_edge(t) ==
    LET a == LiftV(t[1])
        b == LiftV(t[2])
        area == OuterMagnitude(VSub(b, a), VSub(b, a))
    IN  area[1] > Epsilon

\* let area = (b - a).outer(&(c - a)).magnitude()
area(t) ==
    LET a == LiftV(t[1])
        b == LiftV(t[2])
        c == LiftV(t[3])
    IN  OuterMagnitude(VSub(b, a), VSub(c, a))

is_valid(t) == area(t)[1] > Epsilon

\* point_from_barycentric_coords with the first two weights exchanged
point_from_barycentric_coords_swapped(t, ws) ==
    LET a == LiftV(t[1])
        b == LiftV(t[2])
        c == LiftV(t[3])
        coords == VAdd(VAdd(VScale(a, Lift(ws[2])), VScale(b, Lift(ws[1]))),
                       VScale(c, Lift(ws[3])))
    IN  [point |-> Values(coords), inexact |-> AnyInexact(coords)]

point_from_barycentric_coords(t, ws) ==
    LET a == LiftV(t[1])
        b == LiftV(t[2])
        c == LiftV(t[3])
        coords == VAdd(VAdd(VScale(a, Lift(ws[1])), VScale(b, Lift(ws[2]))),
                       VScale(c, Lift(ws[3])))
    IN  [point |-> Values(coords), inexact |-> AnyInexact(coords)]

\* x / 0 in IEEE-754: "nan" for 0 / 0, else an infinity with the sign of x
DivZero(x) == IF x[1] = 0 THEN "nan" ELSE IF x[1] > 0 THEN "inf" ELSE "-inf"

NegInf(s) == IF s = "inf" THEN "-inf" ELSE "inf"

\* A Scalar never holds a NaN: an operation whose result is NaN panics.
point_to_barycentric_coords(t, point) ==
    LET p == LiftV(point)
        a == LiftV(t[1])
        b == LiftV(t[2])
        c == LiftV(t[3])
        v0 == VSub(b, a)
        v1 == VSub(c, a)
        v2 == VSub(p, a)
        d00 == Dot(v0, v0)
        d01 == Dot(v0, v1)
        d11 == Dot(v1, v1)
        d20 == Dot(v2, v0)
        d21 == Dot(v2, v1)
        denom == SSub(SMul(d00, d11), SMul(d01, d01))
        nv == SSub(SMul(d11, d20), SMul(d01, d21))
        nw == SSub(SMul(d00, d21), SMul(d01, d20))
    IN  IF denom[1] # 0
        THEN LET v == SDiv(nv, denom)
                 w == SDiv(nw, denom)
                 u == SSub(SSub(One, v), w)
             IN  [status |-> "ok", coords |-> <<u[1], v[1], w[1]>>,
                  inexact |-> u[2], denom |-> denom[1]]
        ELSE LET v == DivZero(nv)
                 w == DivZero(nw)
             IN  IF v = "nan" \/ w = "nan" \/ v # w
                 THEN [status |-> "panic", coords |-> <<>>,
                       inexact |-> denom[2], denom |-> 0]
                 ELSE \* 1 - v is the opposite infinity, and so is (1 - v) - w
                      [status |-> "infinite", coords |-> <<NegInf(v), v, w>>,
                       inexact |-> denom[2], denom |-> 0]

\* the derived Ord of Point<D>: lexicographic over the coordinates
RECURSIVE PointLessFrom(_, _, _)
PointLessFrom(p, q, i) ==
    IF i > Len(p) THEN FALSE
    ELSE IF p[i] < q[i] THEN TRUE
    ELSE IF p[i] > q[i] THEN FALSE
    ELSE PointLessFrom(p, q, i + 1)

\* an order that looks at the first coordinate only
PointLessFirst(p, q) == p[1] < q[1]

PointLess(p, q) == PointLessFrom(p, q, 1)

\* slice::sort is stable; on a slice this short it is an insertion sort:
\* x goes after the last element that is not greater than it
RECURSIVE InsertSorted(_, _)
InsertSorted(s, x) ==
    IF s = <<>> THEN <<x>>
    ELSE IF PointLess(x, s[Len(s)])
         THEN Append(InsertSorted(SubSeq(s, 1, Len(s) - 1), x), s[Len(s)])
         ELSE Append(s, x)

RECURSIVE SortFrom(_, _)
SortFrom(s, i) ==
    IF i = 0 THEN <<>> ELSE InsertSorted(SortFrom(s, i - 1), s[i])

normalize(t) == SortFrom(t, Len(t))

\* robust::orient2d: the sign of the exact determinant, whatever the inputs
\* orient2d with the two products exchanged: the sign of the opposite turn
orient2d_flipped(pa, pb, pc) ==
    (pa[2] - pc[2]) * (pb[1] - pc[1]) - (pa[1] - pc[1]) * (pb[2] - pc[2])

orient2d(pa, pb, pc) ==
    (pa[1] - pc[1]) * (pb[2] - pc[2]) - (pa[2] - pc[2]) * (pb[1] - pc[1])

winding(t) ==
    LET o == orient2d(t[1], t[2], t[3])
    IN  IF o < 0 THEN "Cw"
        ELSE IF o > 0 THEN "Ccw"
        ELSE "None"


\* ------------------------------------------------- Triangle: the machine
Quarter == Unit \div 4
Weight == {k * Quarter : k \in -1..MaxWeight}
\* weight triples that sum to one
Weights == {ws \in Weight \X Weight \X Weight : ws[1] + ws[2] + ws[3] = Unit}

TriangleIdle == tri = <<>> /\ op = "idle" /\ arg = <<>> /\ ret = <<>>
SurfaceIdle ==
    /\ request = <<>>
    /\ approximate_call = <<>>
    /\ triangles_call = <<>>
    /\ mesh = <<>>
GeometryIdle ==
    /\ tri_mesh = <<>>
    /\ vertices = <<>>
    /\ indices = <<>>
    /\ phase = "idle"
    /\ result = <<>>

\* Triangle::from_points over the points P
Constructed(P) ==
    /\ \E a \in P, b \in P, c \in P : tri = from_points(<<a, b, c>>)
    /\ op = "from_points"
    /\ arg = <<>>
    /\ ret = <<>>

InitTriangle ==
    /\ Constructed(Points2(MaxCoord2)) \/ Constructed(Points3(MaxCoord3))
    /\ SurfaceIdle
    /\ GeometryIdle

IsValid ==
    /\ op = "from_points"
    /\ op' = "is_valid"
    /\ arg' = <<>>
    /\ ret' = [valid |-> is_valid(tri), inexact |-> area(tri)[2]]
    /\ UNCHANGED <<tri, surface_vars, geometry_vars>>

\* normalize(self): arg keeps the triangle it was called on, and whether
\* that one was itself a result of normalize
Normalize ==
    /\ op \in {"from_points", "normalize"}
    /\ op' = "normalize"
    /\ arg' = [self |-> tri, normalized |-> (op = "normalize")]
    /\ tri' = normalize(tri)
    /\ ret' = <<>>
    /\ UNCHANGED <<surface_vars, geometry_vars>>

Winding ==
    /\ op = "from_points"
    /\ Len(tri[1]) = 2
    /\ op' = "winding"
    /\ arg' = <<>>
    /\ ret' = winding(tri)
    /\ UNCHANGED <<tri, surface_vars, geometry_vars>>

NextTriangle == IsValid \/ Normalize \/ Winding

SpecTriangle == InitTriangle /\ [][NextTriangle]_vars

InitBarycentric ==
    /\ Constructed(Points2(MaxBary2)) \/ Constructed(Points3(MaxBary3))
    /\ SurfaceIdle
    /\ GeometryIdle

PointFromBarycentric ==
    /\ op = "from_points"
    /\ \E ws \in Weights :
          /\ arg' = [weights |-> ws]
          /\ ret' = point_from_barycentric_coords(tri, ws)
    /\ op' = "point_from_barycentric_coords"
    /\ UNCHANGED <<tri, surface_vars, geometry_vars>>

\* point_to_barycentric_coords of the point point_from_barycentric_coords made
RoundTrip ==
    /\ op = "point_from_barycentric_coords"
    /\ op' = "round_trip"
    /\ arg' = [weights |-> arg.weights, point |-> ret.point,
               inexact |-> ret.inexact]
    /\ ret' = point_to_barycentric_coords(tri, ret.point)
    /\ UNCHANGED <<tri, surface_vars, geometry_vars>>

NextBarycentric == PointFromBarycentric \/ RoundTrip

SpecBarycentric == InitBarycentric /\ [][NextBarycentric]_vars

\* triangles with their first vertex at the origin, over a wider range
InitProject ==
    /\ \/ \E b \in Points2(MaxWide), c \in Points2(MaxWide) :
              tri = from_points(<<<<0, 0>>, b, c>>)
       \/ \E b \in Points3(MaxBary3), c \in Points3(MaxBary3) :
              tri = from_points(<<<<0, 0, 0>>, b, c>>)
    /\ op = "from_points"
    /\ arg = <<>>
    /\ ret = <<>>
    /\ SurfaceIdle
    /\ GeometryIdle

PointToBarycentric ==
    /\ op = "from_points"
    /\ \E p \in (IF Len(tri[1]) = 2 THEN Points2(MaxWide) ELSE Points3(MaxBary3)) :
          /\ arg' = [point |-> p]
          /\ ret' = point_to_barycentric_coords(tri, p)
    /\ op' = "point_to_barycentric_coords"
    /\ UNCHANGED <<tri, surface_vars, geometry_vars>>

NextProject == PointToBarycentric

SpecProject == InitProject /\ [][NextProject]_vars

\* --------------------------------------------------- Triangle: the claims
\* the three points lie on one line (or coincide), exactly: every 2x2 minor
\* of the two edge vectors from the first point vanishes
Collinear(t) ==
    \A i \in 1..Len(t[1]), j \in 1..Len(t[1]) :
        (t[2][i] - t[1][i]) * (t[3][j] - t[1][j])
            = (t[2][j] - t[1][j]) * (t[3][i] - t[1][i])

RoundTripped == op = "round_trip" /\ ~Collinear(tri)

\* C1 as claimed: on a non-degenerate triangle, point_to_barycentric_coords
\* of point_from_barycentric_coords(w) returns w, for weights that sum to 1.
C1_RoundTripReturnsW ==
    RoundTripped => (ret.status = "ok" /\ ret.coords = arg.weights)

\* C1 as amended: the round trip returns w whenever no floating-point
\* operation of the two calls had to round.
C1_RoundTripExactWhenNoRounding ==
    (RoundTripped /\ ~arg.inexact /\ ~ret.inexact)
        => (ret.status = "ok" /\ ret.coords = arg.weights)

C1_Witness ==
    /\ RoundTripped
    /\ ~arg.inexact /\ ~ret.inexact
    /\ Len(tri[1]) = 3
    /\ \A i \in 1..3 : arg.weights[i] # 0
    /\ arg.weights[1] < 0
    /\ ret.coords = arg.weights

\* the six orderings of a triangle's points
Orderings(t) ==
    {<<t[i], t[j], t[k]>> : <<i, j, k>> \in
        {o \in (1..3) \X (1..3) \X (1..3) : {o[1], o[2], o[3]} = 1..3}}

Count(t, x) == Cardinality({i \in 1..3 : t[i] = x})

\* ascending in the lexicographic order, written out coordinate by coordinate
LexLeq(p, q) ==
    \/ p = q
    \/ \E i \in 1..Len(p) :
          /\ p[i] < q[i]
          /\ \A j \in 1..(i - 1) : p[j] = q[j]

\* C2: normalize is idempotent, gives the same triangle for each of the six
\* orderings of its points, keeps the points as a multiset and leaves them
\* in ascending lexicographic order.
C2_Normalize ==
    op = "normalize" =>
        /\ arg.normalized => tri = arg.self
        /\ \A o \in Orderings(arg.self) : normalize(o) = tri
        /\ \A i \in 1..3 : Count(tri, tri[i]) = Count(arg.self, tri[i])
        /\ LexLeq(tri[1], tri[2]) /\ LexLeq(tri[2], tri[3])

\* a second normalize, of a triangle whose points were out of order at first
\* and two of which agree in their first coordinate
C2_Witness ==
    /\ op = "normalize"
    /\ arg.normalized
    /\ tri = arg.self
    /\ Len(tri[1]) = 3
    /\ tri[1][1] = tri[2][1] /\ tri[1] # tri[2] /\ tri[2] # tri[3]

\* twice the signed area of a 2D triangle, by the shoelace formula
SignedArea2(t) ==
    (t[1][1] * t[2][2] - t[2][1] * t[1][2])
    + (t[2][1] * t[3][2] - t[3][1] * t[2][2])
    + (t[3][1] * t[1][2] - t[1][1] * t[3][2])

UnitTriangle2 == <<<<0, 0>>, <<Unit, 0>>, <<0, Unit>>>>
Reversed(t) == <<t[3], t[2], t[1]>>

\* C3: winding is Ccw exactly for a positive signed orientation, Cw exactly
\* for a negative one and None exactly for collinear points;
\* [(0,0),(1,0),(0,1)] is Ccw and its reverse is Cw.
C3_Winding ==
    op = "winding" =>
        /\ ret = "Ccw" <=> SignedArea2(tri) > 0
        /\ ret = "Cw" <=> SignedArea2(tri) < 0
        /\ ret = "None" <=> Collinear(tri)
        /\ tri = UnitTriangle2 => ret = "Ccw"
        /\ tri = Reversed(UnitTriangle2) => ret = "Cw"

C3_Witness == op = "winding" /\ tri = Reversed(UnitTriangle2) /\ ret = "Cw"

\* the squared area of the parallelogram spanned by B-A and C-A, exactly;
\* the coordinates are whole multiples of Unit, so the divisions are exact
ExactAreaSq(t) ==
    LET m(i, j) == ((t[2][i] - t[1][i]) * (t[3][j] - t[1][j])
                    - (t[2][j] - t[1][j]) * (t[3][i] - t[1][i])) \div Unit
    IN  IF Len(t[1]) = 2 THEN m(1, 2) * m(1, 2)
        ELSE m(2, 3) * m(2, 3) + m(3, 1) * m(3, 1) + m(1, 2) * m(1, 2)

C10_DegeneratePanics ==
    (op = "point_to_barycentric_coords" /\ Collinear(tri))
        => ret.status = "panic"

\* ---------------------------------------------- SurfaceMesh::from_surface
\* Parametric coordinates are small whole numbers here, on which every
\* scalar operation is exact.
Param == 0..MaxParam

\* Aabb<2>: min and max corner, min <= max in both coordinates
Aabbs ==
    {[min |-> <<a, b>>, max |-> <<c, d>>] :
        <<a, b, c, d>> \in {q \in Param \X Param \X Param \X Param :
                               q[1] <= q[3] /\ q[2] <= q[4]}}

\* Surface: planar geometries, an origin and the two axes of the plane
Surfaces ==
    {[geometry |-> [origin |-> <<0, 0, 0>>, u |-> <<1, 0, 0>>, v |-> <<0, 1, 0>>]],
     [geometry |-> [origin |-> <<0, 0, 1>>, u |-> <<0, 2, 0>>, v |-> <<0, 0, 1>>]]}

\* SurfaceGeometry::approximate(boundary): some sample points of the
\* surface within the boundary, in some order
approximate(geometry, boundary) ==
    LET inside == {p \in Param \X Param :
                      /\ boundary.min[1] <= p[1] /\ p[1] <= boundary.max[1]
                      /\ boundary.min[2] <= p[2] /\ p[2] <= boundary.max[2]}
    IN  UNION {[1..n -> inside] : n \in 0..MaxSamples}

\* TriangulationPoint::from_surface_point: the point in parametric space
\* together with its position on the surface
from_surface_point(point_surface, geometry) ==
    [point_surface |-> point_surface,
     point_global |->
        [i \in 1..3 |-> geometry.origin[i]
                        + geometry.u[i] * point_surface[1]
                        + geometry.v[i] * point_surface[2]]]

\* -- delaunay::triangles
Orient(p, q, r) ==
    (q[1] - p[1]) * (r[2] - p[2]) - (q[2] - p[2]) * (r[1] - p[1])

\* positive when s lies strictly inside the circle through p, q, r
InCircle(p, q, r, s) ==
    LET ax == p[1] - s[1]
        ay == p[2] - s[2]
        bx == q[1] - s[1]
        by == q[2] - s[2]
        cx == r[1] - s[1]
        cy == r[2] - s[2]
        det == (ax * ax + ay * ay) * (bx * cy - cx * by)
               - (bx * bx + by * by) * (ax * cy - cx * ay)
               + (cx * cx + cy * cy) * (ax * by - bx * ay)
    IN  det * Sgn(Orient(p, q, r))

\* the interiors of two triangles meet unless an edge of one of them has the
\* other triangle on its outer side
Separates(t, k, other) ==
    LET p == t[k]
        q == t[(k % 3) + 1]
        r == t[((k + 1) % 3) + 1]
        side == Sgn(Orient(p, q, r))
    IN  \A i \in 1..3 : Orient(p, q, other[i]) * side <= 0

Overlap(s, t) ==
    ~\E k \in 1..3 : Separates(s, k, t) \/ Separates(t, k, s)

\* the sum of the values of the function f
RECURSIVE Sum(_)
Sum(f) ==
    IF DOMAIN f = {} THEN 0
    ELSE LET x == CHOOSE y \in DOMAIN f : TRUE
         IN  f[x] + Sum([y \in DOMAIN f \ {x} |-> f[y]])

\* twice the area of the convex hull of the points P: the shoelace sum over
\* the hull's edges, each taken between its two extreme points
HullArea2(P) ==
    LET edge(e) ==
            /\ e[1] # e[2]
            /\ \A s \in P :
                  \/ Orient(e[1], e[2], s) > 0
                  \/ /\ Orient(e[1], e[2], s) = 0
                     /\ (s[1] - e[1][1]) * (s[1] - e[2][1]) <= 0
                     /\ (s[2] - e[1][2]) * (s[2] - e[2][2]) <= 0
        cross(e) == e[1][1] * e[2][2] - e[1][2] * e[2][1]
    IN  Sum([e \in {d \in P \X P : edge(d)} |-> cross(e)])

\* The triangulations the engine may return for the points (a sequence of
\* TriangulationPoints) under the constraints (none are ever passed):
\* duplicate points are merged; the triangles are Delaunay (no point
\* strictly inside a triangle's circumcircle), do not overlap and cover the
\* convex hull; fewer than three non-collinear points give no triangle.
\* Which Delaunay triangulation it is when four points lie on one circle is
\* the engine's choice.
triangles(constraints, points) ==
    LET first == {i \in 1..Len(points) :
                     \A j \in 1..(i - 1) :
                         points[j].point_surface # points[i].point_surface}
        at(i) == points[i].point_surface
        delaunay ==
            {t \in first \X first \X first :
                /\ t[1] < t[2] /\ t[2] < t[3]
                /\ Orient(at(t[1]), at(t[2]), at(t[3])) # 0
                /\ \A s \in first \ {t[1], t[2], t[3]} :
                      InCircle(at(t[1]), at(t[2]), at(t[3]), at(s)) <= 0}
        corners(t) == <<at(t[1]), at(t[2]), at(t[3])>>
        area2(t) == Abs(Orient(at(t[1]), at(t[2]), at(t[3])))
        hull == HullArea2({at(i) : i \in first})
    IN  {{<<points[t[1]], points[t[2]], points[t[3]]>> : t \in T} :
            T \in {T \in SUBSET delaunay :
                      /\ \A s \in T, t \in T :
                            s # t => ~Overlap(corners(s), corners(t))
                      /\ Sum([t \in T |-> area2(t)]) = hull}}

\* -- from_surface
surface_points(surface, samples) ==
    [i \in 1..Len(samples) |->
        from_surface_point(samples[i], surface.geometry)]

\* the corners in another order: min/min, max/min, min/max, max/max
boundary_points_by_rows(surface, boundary) ==
    LET min_u == boundary.min[1]
        min_v == boundary.min[2]
        max_u == boundary.max[1]
        max_v == boundary.max[2]
        corners == <<<<min_u, min_v>>, <<max_u, min_v>>,
                     <<min_u, max_v>>, <<max_u, max_v>>>>
    IN  [i \in 1..4 |-> from_surface_point(corners[i], surface.geometry)]

boundary_points(surface, boundary) ==
    LET min_u == boundary.min[1]
        min_v == boundary.min[2]
        max_u == boundary.max[1]
        max_v == boundary.max[2]
        corners == <<<<min_u, min_v>>, <<min_u, max_v>>,
                     <<max_u, min_v>>, <<max_u, max_v>>>>
    IN  [i \in 1..4 |-> from_surface_point(corners[i], surface.geometry)]

\* all_points without the corners
all_points_interior_only(interior, corners) == interior

\* let mut all_points = surface_points.clone(); all_points.extend(...)
all_points(interior, corners) == interior \o corners

\* approximate called with the tolerance as well
approximate_arguments_with_tolerance(req) ==
    [boundary |-> req.boundary, tolerance |-> req.tolerance]

\* what from_surface passes to surface.geometry.approximate: the boundary;
\* the tolerance parameter is bound to `_` and goes nowhere
approximate_arguments(req) == [boundary |-> req.boundary]

MeshTriangle(triangle) == [points |-> triangle]

InitSurface ==
    /\ \E surface \in Surfaces, boundary \in Aabbs, tolerance \in 1..MaxTolerance :
          request = [surface |-> surface, boundary |-> boundary,
                     tolerance |-> tolerance]
    /\ approximate_call = <<>>
    /\ triangles_call = <<>>
    /\ mesh = <<>>
    /\ TriangleIdle
    /\ GeometryIdle

FromSurface ==
    /\ mesh = <<>>
    /\ \E samples \in approximate(request.surface.geometry, request.boundary) :
          LET interior == surface_points(request.surface, samples)
              corners == boundary_points(request.surface, request.boundary)
              all == all_points(interior, corners)
          IN  \E ts \in triangles(<<>>, all) :
                  /\ approximate_call' =
                        [arguments |-> approximate_arguments(request),
                         returned |-> samples]
                  /\ triangles_call' = [constraints |-> <<>>, points |-> all]
                  /\ mesh' = [points |-> interior,
                              triangles |-> {MeshTriangle(t) : t \in ts}]
    /\ UNCHANGED <<request, triangle_vars, geometry_vars>>

NextSurface == FromSurface

SpecSurface == InitSurface /\ [][NextSurface]_vars

\* -------------------------------------------- from_surface: the claims
Returned == mesh # <<>>

Corner(boundary, i) ==
    <<IF i \in {1, 2} THEN boundary.min[1] ELSE boundary.max[1],
      IF i \in {1, 3} THEN boundary.min[2] ELSE boundary.max[2]>>

CornerPoints ==
    {from_surface_point(<<u, v>>, request.surface.geometry) :
        u \in {request.boundary.min[1], request.boundary.max[1]},
        v \in {request.boundary.min[2], request.boundary.max[2]}}

Width == request.boundary.max[1] - request.boundary.min[1]
Height == request.boundary.max[2] - request.boundary.min[2]

ParamCorners(t) == [i \in 1..3 |-> t.points[i].point_surface]

\* the triangles use corner points only, do not overlap, and their areas
\* add up to the rectangle's
TwoTrianglesCoverRectangle ==
    /\ Cardinality(mesh.triangles) = 2
    /\ \A t \in mesh.triangles : \A i \in 1..3 : t.points[i] \in CornerPoints
    /\ \A s \in mesh.triangles, t \in mesh.triangles :
          s # t => ~Overlap(ParamCorners(s), ParamCorners(t))
    /\ Sum([t \in mesh.triangles |->
              Abs(Orient(t.points[1].point_surface, t.points[2].point_surface,
                         t.points[3].point_surface))])
          = 2 * Width * Height

NoSamples == Returned /\ approximate_call.returned = <<>>

\* C5 as claimed: with 0 sample points from approximate, from_surface
\* returns no points and exactly 2 triangles, on the four corners of the
\* boundary rectangle, which together cover it.
C5_TwoTriangles ==
    NoSamples => (mesh.points = <<>> /\ TwoTrianglesCoverRectangle)

\* C5 as amended: the same for a boundary of positive width and height; a
\* boundary of zero width or height gives no triangle.
C5_TwoTrianglesOnProperRectangle ==
    NoSamples =>
        /\ mesh.points = <<>>
        /\ (Width > 0 /\ Height > 0) => TwoTrianglesCoverRectangle
        /\ (Width = 0 \/ Height = 0) => mesh.triangles = {}

C5_Witness ==
    /\ NoSamples
    /\ Width > 0 /\ Height > 0 /\ Width # Height
    /\ TwoTrianglesCoverRectangle

C8_ToleranceForwarded ==
    Returned =>
        /\ "tolerance" \in DOMAIN approximate_call.arguments
        /\ approximate_call.arguments.tolerance = request.tolerance

\* C8 as amended: the tolerance is dropped; the approximate call receives the
\* boundary and nothing else.
C8_ToleranceDropped ==
    Returned =>
        /\ DOMAIN approximate_call.arguments = {"boundary"}
        /\ approximate_call.arguments.boundary = request.boundary

C8_Witness ==
    /\ Returned
    /\ request.tolerance = MaxTolerance
    /\ DOMAIN approximate_call.arguments = {"boundary"}

\* ------------------------------------------------------- Geometry::new
MaxSigF32 == Pow2(PrecF32)

\* `as f32`
as_f32(x) == RoundRatTo(MaxSigF32, x, 1)

Sub32(x, y) == RoundRatTo(MaxSigF32, x - y, 1)
Mul32(x, y) == RoundRatTo(MaxSigF32, x * y, Unit)

\* Vec3 - Vec3
Vec3Sub(a, b) == [i \in 1..3 |-> Sub32(a[i], b[i])]

\* Vec3::cross
Vec3Cross(a, b) ==
    <<Sub32(Mul32(a[2], b[3]), Mul32(b[2], a[3])),
      Sub32(Mul32(a[3], b[1]), Mul32(b[3], a[1])),
      Sub32(Mul32(a[1], b[2]), Mul32(b[1], a[2]))>>

\* the index taken after the vertex was pushed
next_index_after_push(len) == (len + 1) % Pow2(IndexBits)

\* vertices.len() as u32
next_index(len) == len % Pow2(IndexBits)

\* a conversion that keeps the low bits, like `as u32`
try_into_wrapping(len) == [ok |-> TRUE, value |-> len % Pow2(IndexBits)]

\* indices.len().try_into()
try_into(len) ==
    IF len <= Pow2(IndexBits) - 1
    THEN [ok |-> TRUE, value |-> len]
    ELSE [ok |-> FALSE, value |-> 0]

\* for point in triangle { ... }: the points from the i-th on
RECURSIVE PushPoints(_, _, _, _)
PushPoints(buffers, triangle, normal, i) ==
    IF i > 3 THEN buffers
    ELSE LET index == next_index(Len(buffers.vertices))
             vertex == [position |-> triangle[i], normal |-> normal]
         IN  PushPoints([indices |-> Append(buffers.indices, index),
                         vertices |-> Append(buffers.vertices, vertex)],
                        triangle, normal, i + 1)

\* the triangles a tri mesh is made of: two of the unit tests of
\* triangle.rs, and one with a coordinate that f32 cannot hold
MeshTriangles ==
    {<<<<0, 0, 0>>, <<0, Unit, 0>>, <<Unit, 0, 0>>>>,
     <<<<0, 0, 0>>, <<Unit, 0, 0>>, <<2 * Unit, 0, 0>>>>,
     <<<<0, 0, 0>>, <<(MaxSigF32 + 1) * Unit, Unit, 0>>, <<2 * Unit, 0, 0>>>>}

InitGeometry ==
    /\ tri_mesh \in UNION {[1..n -> MeshTriangles] : n \in 0..MaxTriangles}
    /\ vertices = <<>>
    /\ indices = <<>>
    /\ phase = "loop"
    /\ result = <<>>
    /\ TriangleIdle
    /\ SurfaceIdle

\* one turn of `for triangle in tri_mesh.all_triangles()`
ForTriangle ==
    /\ phase = "loop"
    /\ Len(vertices) < 3 * Len(tri_mesh)
    /\ LET points == tri_mesh[(Len(vertices) \div 3) + 1]
           triangle == [i \in 1..3 |-> [c \in 1..3 |-> as_f32(points[i][c])]]
           ab == Vec3Sub(triangle[2], triangle[1])
           ac == Vec3Sub(triangle[3], triangle[1])
           normal == Vec3Cross(ab, ac)
           pushed == PushPoints([indices |-> indices, vertices |-> vertices],
                                triangle, normal, 1)
       IN  /\ vertices' = pushed.vertices
           /\ indices' = pushed.indices
    /\ UNCHANGED <<tri_mesh, phase, result, triangle_vars, surface_vars>>

\* after the loop: the conversion of the index count, then the buffers
Finish ==
    /\ phase = "loop"
    /\ Len(vertices) = 3 * Len(tri_mesh)
    /\ LET num_indices == try_into(Len(indices))
       IN  IF num_indices.ok
           THEN /\ phase' = "returned"
                /\ result' = [vertices |-> vertices, indices |-> indices,
                              num_indices |-> num_indices.value]
           ELSE /\ phase' = "panicked"
                /\ result' = <<>>
    /\ UNCHANGED <<tri_mesh, vertices, indices, triangle_vars, surface_vars>>

NextGeometry == ForTriangle \/ Finish

SpecGeometry == InitGeometry /\ [][NextGeometry]_vars

\* --------------------------------------------- Geometry::new: the claims
Processed == Len(vertices) \div 3

\* three vertices per processed triangle, in the triangle's point order
ThreePerTriangle ==
    /\ Len(vertices) = 3 * Processed
    /\ Len(indices) = 3 * Processed
    /\ Processed <= Len(tri_mesh)
    /\ \A j \in 0..(Processed - 1) : \A c \in 1..3 :
          \A k \in 1..3 :
              vertices[3 * j + c].position[k] = as_f32(tri_mesh[j + 1][c][k])

\* C7 as claimed: after any prefix of k triangles, vertices and indices have
\* length 3k and indices[i] == i at every position i (counted from 0).
C7_SequentialIndices ==
    phase = "loop" =>
        /\ ThreePerTriangle
        /\ \A i \in 1..Len(indices) : indices[i] = i - 1

\* C7 as amended: indices[i] == i modulo 2^IndexBits, which is i at every
\* position below 2^IndexBits.
C7_SequentialIndicesModuloWidth ==
    phase = "loop" =>
        /\ ThreePerTriangle
        /\ \A i \in 1..Len(indices) : indices[i] = (i - 1) % Pow2(IndexBits)
        /\ \A i \in 1..Len(indices) :
              i <= Pow2(IndexBits) => indices[i] = i - 1

C7_Witness ==
    /\ phase = "loop"
    /\ Processed = 2
    /\ tri_mesh[1] # tri_mesh[2]
    /\ indices = <<0, 1, 2, 3, 4, 5>>

\* C9: when the index count does not fit the index width the call panics and
\* returns nothing; a returned Geometry has num_indices equal to the number
\* of indices, and each index equal to its position, none wrapped.
C9_IndexCountFits ==
    /\ phase = "panicked" =>
          (result = <<>> /\ 3 * Len(tri_mesh) >= Pow2(IndexBits))
    /\ phase = "returned" =>
          /\ 3 * Len(tri_mesh) < Pow2(IndexBits)
          /\ result.num_indices = 3 * Len(tri_mesh)
          /\ Len(result.indices) = result.num_indices
          /\ \A i \in 1..Len(result.indices) : result.indices[i] = i - 1

C9_Witness ==
    /\ phase = "panicked"
    /\ result = <<>>
    /\ Len(indices) = 3 * Len(tri_mesh)
    /\ Len(indices) > Pow2(IndexBits)

=============================================================================
